---- MODULE Spec2Model ----
(***************************************************************************)
(* Model of the AIPricingDynamic repository: the pricing decision of       *)
(* api.py (predict_price) and chatbotapp.py (show_pricing_tool, main) and  *)
(* the rule-based BusinessAdvisor of advisor.py.                           *)
(*                                                                         *)
(* Numbers.  Money amounts of a request are whole dollars and percentages  *)
(* whole percents.  A Python float is modelled as a record                 *)
(*   [k |-> "fin" | "nan" | "inf" | "ninf", v |-> Int, t |-> "py" | "np"]  *)
(* where v is the exact value in units of 1/Scale dollar (so that          *)
(* x * (1 + p/100) and x * 0.95 are exact) and t says whether the object   *)
(* is a Python float or a numpy float64 (model.predict(...)[0] is a numpy  *)
(* scalar; the two differ in what a division by zero does).  A margin is   *)
(* the exact fraction num/den (den > 0) of percents.  The arithmetic is     *)
(* exact: the rounding error of binary floating point is not modelled.     *)
(***************************************************************************)
EXTENDS Integers, Sequences, FiniteSets, TLC

VARIABLES
    req,            \* the pricing request (PriceRequest / the form's widgets)
    feature_columns,\* the column list loaded from model_column.pkl
    base_price,     \* what model.predict(...)[0] returns for this request
    apiResp,        \* outcome of the last POST /predict
    appOut,         \* outcome of the last 'Generate Pricing & Advice' click
    context_data,   \* st.session_state.context_data (NoContextData: key absent)
    chat_history,   \* st.session_state.chat_history
    question,       \* advisor input: the question text (sequence of words)
    context,        \* advisor input: the context text (sequence of tokens)
    advice,         \* outcome of the last get_advice(context)
    reply           \* outcome of the last chat(question, context)

vars == <<req, feature_columns, base_price, apiResp, appOut, context_data,
          chat_history, question, context, advice, reply>>

pricingVars == <<req, feature_columns, base_price, apiResp, appOut,
                 context_data, chat_history>>
advisorVars == <<question, context, advice, reply>>

-----------------------------------------------------------------------------
(* Floats *)

\* units per dollar: percents (1/100) times the 0.95 factor (1/100)
Scale == 100 * 100

Fin(v, t) == [k |-> "fin", v |-> v, t |-> t]
NaN(t)    == [k |-> "nan", v |-> 0, t |-> t]
PInf(t)   == [k |-> "inf", v |-> 0, t |-> t]
NInf(t)   == [k |-> "ninf", v |-> 0, t |-> t]

\* a Python float holding a whole number of dollars (or percents)
PyFloat(n) == Fin(n * Scale, "py")

\* a < b on floats: every comparison with NaN is False
Lt(a, b) ==
    /\ a.k # "nan"
    /\ b.k # "nan"
    /\ \/ a.k = "ninf" /\ b.k # "ninf"
       \/ a.k = "fin" /\ b.k = "inf"
       \/ a.k = "fin" /\ b.k = "fin" /\ a.v < b.v

\* a == b on floats (the kind of object plays no part)
Eq(a, b) ==
    /\ a.k # "nan"
    /\ b.k # "nan"
    /\ a.k = b.k
    /\ a.k = "fin" => a.v = b.v

Le(a, b) == Lt(a, b) \/ Eq(a, b)

\* Python's builtin min(a, b): the first argument unless the second is less
PyMinSwapped(a, b) == IF Lt(a, b) THEN b ELSE a
PyMin(a, b) == IF Lt(b, a) THEN b ELSE a

\* Python's builtin max(a, b): the first argument unless the second is greater
PyMax(a, b) == IF Lt(a, b) THEN b ELSE a

\* x * 0.95 for a finite Python float x (a multiple of 1/100 dollar)
Times095(x) == Fin((x.v * 95) \div 100, x.t)

-----------------------------------------------------------------------------
(* The competitive pricing policy: api.py 52-56, chatbotapp.py 208-212 *)

competitor_price(r) ==
    Fin(r.est_competitor_cost * (100 + r.comp_markup) * (Scale \div 100), "py")

our_min_price(r) ==
    Fin(r.costing * (100 + r.our_min_margin) * (Scale \div 100), "py")

competitive_price_IgnoresCompetitor(r, base) ==
    PyMax(base, our_min_price(r))
competitive_price(r, base) ==
    PyMax(PyMin(base, Times095(competitor_price(r))), our_min_price(r))

\* (competitive_price - costing) / competitive_price raises ZeroDivisionError
\* exactly when both operands are Python floats and the divisor is 0; a numpy
\* float64 operand makes it a numpy division, which warns and yields nan/inf.
DivisionRaises(p) == p.k = "fin" /\ p.v = 0 /\ p.t = "py"

\* the fraction num/den in lowest terms with a positive denominator
RECURSIVE GCD(_, _)
GCD(a, b) == IF b = 0 THEN a ELSE GCD(b, a % b)
Abs(n) == IF n < 0 THEN -n ELSE n
Ratio(num, den, t) ==
    LET g == GCD(Abs(num), Abs(den))
        s == IF den < 0 THEN -1 ELSE 1
    IN  [k |-> "fin", num |-> s * (num \div g), den |-> s * (den \div g), t |-> t]
NonFinite(kind, t) == [k |-> kind, num |-> 0, den |-> 1, t |-> t]

\* (competitive_price - costing) / competitive_price * 100, when it does not raise
competitive_margin_OnCost(p, costing) ==
    IF p.k # "fin" \/ costing = 0 THEN NonFinite("nan", p.t)
    ELSE LET r == Ratio(p.v - costing * Scale, costing * Scale, p.t)
         IN  Ratio(100 * r.num, r.den, p.t)
competitive_margin(p, costing) ==
    IF p.k # "fin" THEN NonFinite("nan", p.t)      \* nan/nan, (inf-c)/inf
    ELSE IF p.v = 0
         THEN IF costing = 0 THEN NonFinite("nan", p.t)        \* 0/0
              ELSE IF costing > 0 THEN NonFinite("ninf", p.t)  \* -c/0
              ELSE NonFinite("inf", p.t)
    ELSE LET r == Ratio(p.v - costing * Scale, p.v, p.t)
         IN  Ratio(100 * r.num, r.den, p.t)

-----------------------------------------------------------------------------
(* Feature alignment: api.py 39-49, chatbotapp.py 194-204 *)

\* a DataFrame column label: numeric columns carry their own name, an indicator
\* column produced by get_dummies is named <field>_<value>
NumCol(name)      == <<name, "">>
Dummy(field, val) == <<field, val>>

NumericFields     == {"costing", "Installation_Cost", "est_competitor_cost"}
CategoricalFields == {"Demand_Level", "Stock_Availability", "Customer_Type"}

\* the one-row DataFrame built from the request
NewRow(r) ==
    [costing             |-> r.costing,
     Demand_Level        |-> r.demand_level,
     Stock_Availability  |-> r.stock_availability,
     Installation_Cost   |-> r.installation_cost,
     Customer_Type       |-> r.customer_type,
     est_competitor_cost |-> r.est_competitor_cost]

\* the levels get_dummies sees in a column: the sorted distinct values of the
\* frame's rows, and the frame has one row
Levels(row, field) == <<row[field]>>

\* drop_first=True removes the first level of every encoded column
DropFirst(levels) == Tail(levels)

\* pd.get_dummies(df, drop_first=True): the numeric columns pass through, each
\* text column is replaced by one 0/1 column per remaining level
get_dummies(row) ==
    LET kept(f)   == DropFirst(Levels(row, f))
        dummyCols == UNION { { Dummy(f, kept(f)[i]) : i \in 1..Len(kept(f)) } :
                             f \in CategoricalFields }
        numCols   == { NumCol(f) : f \in NumericFields }
    IN  [c \in numCols \cup dummyCols |->
            IF c \in numCols THEN row[c[1]]
            ELSE IF row[c[1]] = c[2] THEN 1 ELSE 0]

\* df.reindex(columns=feature_columns, fill_value=0)
reindexNoFill(encoded, columns) ==
    LET known == SelectSeq(columns, LAMBDA c : c \in DOMAIN encoded)
    IN  [i \in 1..Len(known) |-> [col |-> known[i], val |-> encoded[known[i]]]]
reindexFillOne(encoded, columns) ==
    [i \in 1..Len(columns) |->
        [col |-> columns[i],
         val |-> IF columns[i] \in DOMAIN encoded THEN encoded[columns[i]] ELSE 1]]
reindex(encoded, columns) ==
    [i \in 1..Len(columns) |->
        [col |-> columns[i],
         val |-> IF columns[i] \in DOMAIN encoded THEN encoded[columns[i]] ELSE 0]]

\* the frame handed to model.predict
Features(r, columns) == reindex(get_dummies(NewRow(r)), columns)

-----------------------------------------------------------------------------
(* Rounding of the API response: api.py 58-63 *)

\* round(float(x), 2) of a float: nearest cent, a decimal tie to the even cent
Round2(x) ==
    IF x.k # "fin" THEN [x EXCEPT !.t = "py"]
    ELSE LET unit == Scale \div 100
             q    == x.v \div unit
             rem  == x.v % unit
         IN  IF 2 * rem < unit \/ (2 * rem = unit /\ q % 2 = 0)
             THEN Fin(q * unit, "py")
             ELSE Fin((q + 1) * unit, "py")

\* round(float(m), 2) of a margin, as a float in units of 1/Scale percent
RoundMargin2(m) ==
    IF m.k # "fin" THEN [k |-> m.k, v |-> 0, t |-> "py"]
    ELSE LET n   == m.num * 100
             q   == n \div m.den
             rem == n % m.den
         IN  IF 2 * rem < m.den \/ (2 * rem = m.den /\ q % 2 = 0)
             THEN Fin(q * (Scale \div 100), "py")
             ELSE Fin((q + 1) * (Scale \div 100), "py")

-----------------------------------------------------------------------------
(* The two pricing handlers *)

NoOutcome == [status |-> "none"]
NoContextData == [present |-> FALSE]

\* st.session_state.chat_history: absent in a new session, then a list of
\* (speaker, text) pairs
NoHistory == [present |-> FALSE]
EmptyHistory == [present |-> TRUE, turns |-> <<>>]

init_history_Resets(history) == EmptyHistory

\* 'if "chat_history" not in st.session_state: st.session_state.chat_history = []',
\* chatbotapp.py 684-685 at the start of every script run, again at 384-386
init_history(history) == IF history.present THEN history ELSE EmptyHistory

\* POST /predict, api.py 37-63.  PriceRequest declares types only, so every
\* request that parses reaches the body.  "called" records that model.predict
\* was invoked, "features" the frame it was given.
predict_price(r, columns, base) ==
    LET p == competitive_price(r, base)
        m == competitive_margin(p, r.costing)
    IN  IF DivisionRaises(p)
        THEN [status |-> "error", error |-> "ZeroDivisionError",
              called |-> TRUE, features |-> Features(r, columns)]
        ELSE [status |-> "ok", called |-> TRUE,
              features          |-> Features(r, columns),
              base_price        |-> base,
              competitor_price  |-> competitor_price(r),
              our_min_price     |-> our_min_price(r),
              competitive_price |-> p,
              competitive_margin |-> m,
              body |-> [base_price            |-> Round2(base),
                        recommended_price     |-> Round2(p),
                        profit_margin_percent |-> RoundMargin2(m),
                        competitor_price      |-> Round2(competitor_price(r))]]

ApiPredict ==
    /\ apiResp' = predict_price(req, feature_columns, base_price)
    /\ UNCHANGED <<req, feature_columns, base_price, appOut, context_data,
                   chat_history, advisorVars>>

\* what the form's widgets let through: chatbotapp.py 171-189
DemandLevels       == {"Low", "Medium", "High"}
StockLevels        == {"In Stock", "Low Stock", "Out of Stock"}
CustomerTypes      == {"Corporate", "Enterprise", "Government", "SME"}
WidgetsAllow(r) ==
    /\ r.demand_level \in DemandLevels
    /\ r.stock_availability \in StockLevels
    /\ r.customer_type \in CustomerTypes
    /\ r.comp_markup \in 10..50
    /\ r.our_min_margin \in 5..30

\* the 'Generate Pricing & Advice' branch, chatbotapp.py 191-221, for a quote
\* that was found and a model that was loaded: an exception of line 212 ends
\* the script run before context_data is assigned.  main has initialised the
\* chat history (684-685) before the branch is entered.
GenerateRaises(r, base) == DivisionRaises(competitive_price(r, base))

GenerateContext(r, base) ==
    LET p == competitive_price(r, base)
    IN  [present            |-> TRUE,
         base_price         |-> base,
         competitor_price   |-> competitor_price(r),
         competitive_price  |-> p,
         costing            |-> PyFloat(r.costing),
         competitive_margin |-> competitive_margin(p, r.costing)]

Generate_KeepsFirst(r, columns, base) ==
    /\ WidgetsAllow(r)
    /\ IF GenerateRaises(r, base)
       THEN /\ appOut' = [status |-> "error", error |-> "ZeroDivisionError",
                          called |-> TRUE, features |-> Features(r, columns)]
            /\ UNCHANGED context_data
       ELSE /\ appOut' = [status |-> "ok", called |-> TRUE,
                          features |-> Features(r, columns),
                          our_min_price |-> our_min_price(r)]
            /\ context_data' = IF context_data.present THEN context_data
                               ELSE GenerateContext(r, base)
    /\ chat_history' = init_history(chat_history)

Generate_ClearsOnError(r, columns, base) ==
    /\ WidgetsAllow(r)
    /\ IF GenerateRaises(r, base)
       THEN /\ appOut' = [status |-> "error", error |-> "ZeroDivisionError",
                          called |-> TRUE, features |-> Features(r, columns)]
            /\ context_data' = NoContextData
       ELSE /\ appOut' = [status |-> "ok", called |-> TRUE,
                          features |-> Features(r, columns),
                          our_min_price |-> our_min_price(r)]
            /\ context_data' = GenerateContext(r, base)
    /\ chat_history' = init_history(chat_history)

Generate(r, columns, base) ==
    /\ WidgetsAllow(r)
    /\ IF GenerateRaises(r, base)
       THEN /\ appOut' = [status |-> "error", error |-> "ZeroDivisionError",
                          called |-> TRUE, features |-> Features(r, columns)]
            /\ UNCHANGED context_data
       ELSE /\ appOut' = [status |-> "ok", called |-> TRUE,
                          features |-> Features(r, columns),
                          our_min_price |-> our_min_price(r)]
            /\ context_data' = GenerateContext(r, base)
    /\ chat_history' = init_history(chat_history)

AppGenerate ==
    /\ Generate(req, feature_columns, base_price)
    /\ UNCHANGED <<req, feature_columns, base_price, apiResp, advisorVars>>

-----------------------------------------------------------------------------
(* BusinessAdvisor: advisor.py *)

\* A question is a sequence of characters.  A context is a sequence of tokens:
\* a character, or one of the phrases below taken as a unit.  NoneText stands
\* for Python's None passed where a text is expected.
MarginLabel      == "Profit margin: "
NoneText         == <<"<None>">>

Digits   == {"0", "1", "2", "3", "4", "5", "6", "7", "8", "9"}
NumChars == Digits \cup {"."}          \* the class [\d.]

DigitValue(c) ==
    CASE c = "0" -> 0 [] c = "1" -> 1 [] c = "2" -> 2 [] c = "3" -> 3
      [] c = "4" -> 4 [] c = "5" -> 5 [] c = "6" -> 6 [] c = "7" -> 7
      [] c = "8" -> 8 [] c = "9" -> 9

\* str.lower() of one character or phrase
LowerChar(c) ==
    CASE c = "M" -> "m" [] c = "A" -> "a" [] c = "R" -> "r" [] c = "G" -> "g"
      [] c = "I" -> "i" [] c = "N" -> "n" [] c = "S" -> "s" [] c = "C" -> "c"
      [] c = "O" -> "o" [] c = "P" -> "p" [] c = "E" -> "e" [] c = "T" -> "t"
      [] c = "Y" -> "y"
      [] c = "Profit margin: " -> "profit margin: "
      [] c = "Competitor price: $" -> "competitor price: $"
      [] c = "COMPETITOR PRICE" -> "competitor price"
      [] OTHER -> c

lower(text) == [i \in 1..Len(text) |-> LowerChar(text[i])]

\* needle in text, for a question (characters)
Contains(text, needle) ==
    \E i \in 1..(Len(text) - Len(needle) + 1) :
        SubSeq(text, i, i + Len(needle) - 1) = needle

kw_margin     == <<"m", "a", "r", "g", "i", "n">>
kw_competitor == <<"c", "o", "m", "p", "e", "t", "i", "t", "o", "r">>
kw_price      == <<"p", "r", "i", "c", "e">>

\* "competitor price" in context.lower(), for a context (tokens)
MentionsCompetitorPrice(ctx) ==
    \E i \in 1..Len(ctx) :
        LowerChar(ctx[i]) \in {"competitor price: $", "competitor price"}

\* re.search(r'Profit margin: ([\d.]+)', context): the leftmost place where the
\* label is followed by at least one character of [\d.]; the group is the
\* longest run of such characters there
MatchStarts(ctx) ==
    { i \in 1..(Len(ctx) - 1) : ctx[i] = MarginLabel /\ ctx[i + 1] \in NumChars }

SetMin(S) == CHOOSE x \in S : \A y \in S : x <= y
SetMax(S) == CHOOSE x \in S : \A y \in S : x >= y

re_search(ctx) ==
    IF MatchStarts(ctx) = {} THEN [matched |-> FALSE]
    ELSE LET i == SetMin(MatchStarts(ctx))
             e == SetMax({ j \in (i + 1)..Len(ctx) :
                            \A h \in (i + 1)..j : ctx[h] \in NumChars })
         IN  [matched |-> TRUE, group |-> SubSeq(ctx, i + 1, e)]

\* float(text) of a text over [\d.]: a ValueError unless it has at least one
\* digit and at most one point; the value is num / den
CountOf(text, chars) == Cardinality({ i \in 1..Len(text) : text[i] \in chars })

FloatRaises(text) == CountOf(text, Digits) = 0 \/ CountOf(text, {"."}) > 1

RECURSIVE DigitsValue(_)
DigitsValue(text) ==
    IF text = <<>> THEN 0
    ELSE LET init == SubSeq(text, 1, Len(text) - 1)
             last == text[Len(text)]
         IN  IF last = "." THEN DigitsValue(init)
             ELSE 10 * DigitsValue(init) + DigitValue(last)

RECURSIVE Pow10(_)
Pow10(n) == IF n = 0 THEN 1 ELSE 10 * Pow10(n - 1)

float(text) ==
    LET point == { i \in 1..Len(text) : text[i] = "." }
        after == IF point = {} THEN 0 ELSE Len(text) - SetMin(point)
    IN  [num |-> DigitsValue(text), den |-> Pow10(after)]

\* margin < n for a parsed margin
Below(m, n) == m.num < n * m.den

Heading        == "Business Insight:"
AdviceLow      == "- Low margin: Negotiate vendor costs or raise price."
AdviceModerate == "- Moderate margin: Look for efficiency improvements."
AdviceStrong   == "- Strong margin: Consider investing in growth."
AdviceDiff     == "- Differentiate on service, not just price."
AdviceMonitor  == "- Monitor competitor pricing weekly."
AdviceLoyalty  == "- Build loyalty programs to reduce churn."

\* the tier line of get_advice: advisor.py 14-19
AdviceTier_StrictBounds(m) ==
    IF m.num <= 10 * m.den THEN AdviceLow
    ELSE IF m.num <= 20 * m.den THEN AdviceModerate
    ELSE AdviceStrong
AdviceTier(m) ==
    IF Below(m, 10) THEN AdviceLow
    ELSE IF Below(m, 20) THEN AdviceModerate
    ELSE AdviceStrong

\* get_advice(context): advisor.py 8-27, the advice as its sequence of lines
get_advice(ctx) ==
    IF ctx = NoneText THEN [status |-> "error", error |-> "TypeError"]
    ELSE LET margin_match == re_search(ctx)
         IN  IF margin_match.matched /\ FloatRaises(margin_match.group)
             THEN [status |-> "error", error |-> "ValueError"]
             ELSE [status |-> "ok",
                   value  |->
                       <<Heading>>
                       \o (IF margin_match.matched
                           THEN <<AdviceTier(float(margin_match.group))>>
                           ELSE <<>>)
                       \o (IF MentionsCompetitorPrice(ctx) THEN <<AdviceDiff>> ELSE <<>>)
                       \o <<AdviceMonitor, AdviceLoyalty>>]

ChatLow        == "Your profit margin is low. Try renegotiating vendor prices or increasing your selling price."
ChatModerate   == "Your margin is moderate. Consider operational efficiencies to improve profitability."
\* (the source's dash in ChatStrong and its emoji in Heading are written in ASCII)
ChatStrong     == "Your margin is strong - you could invest in growth or marketing."
ChatNoMargin   == "I couldn't find margin information in the context."
ChatCompetitor == "Monitor competitor prices regularly and add value beyond price, like better service or faster delivery."
ChatPrice      == "Aim to price competitively but maintain your minimum margin for profitability."
ChatFallback   == "I can help with pricing, margin analysis, and competitor strategies. Could you give me more details?"

\* the tier sentence of chat: advisor.py 37-42
ChatTier(m) ==
    IF Below(m, 10) THEN ChatLow
    ELSE IF Below(m, 20) THEN ChatModerate
    ELSE ChatStrong

\* the margin branch of chat: advisor.py 34-44
chat_margin(ctx) ==
    IF ctx = NoneText THEN [status |-> "error", error |-> "TypeError"]
    ELSE LET margin_match == re_search(ctx)
         IN  IF ~margin_match.matched
             THEN [status |-> "ok", value |-> ChatNoMargin]
             ELSE IF FloatRaises(margin_match.group)
             THEN [status |-> "error", error |-> "ValueError"]
             ELSE [status |-> "ok", value |-> ChatTier(float(margin_match.group))]

\* chat(question, context): advisor.py 29-56
chat_CompetitorFirst(q, ctx) ==
    IF Contains(lower(q), kw_competitor) THEN [status |-> "ok", value |-> ChatCompetitor]
    ELSE IF Contains(lower(q), kw_margin) THEN chat_margin(ctx)
    ELSE IF Contains(lower(q), kw_price) THEN [status |-> "ok", value |-> ChatPrice]
    ELSE [status |-> "ok", value |-> ChatFallback]
chat(q, ctx) ==
    IF Contains(lower(q), kw_margin) THEN chat_margin(ctx)
    ELSE IF Contains(lower(q), kw_competitor)
         THEN [status |-> "ok", value |-> ChatCompetitor]
    ELSE IF Contains(lower(q), kw_price)
         THEN [status |-> "ok", value |-> ChatPrice]
    ELSE [status |-> "ok", value |-> ChatFallback]

CallGetAdvice ==
    /\ advice' = get_advice(context)
    /\ UNCHANGED <<question, context, reply, pricingVars>>

CallChat ==
    /\ reply' = chat(question, context)
    /\ UNCHANGED <<question, context, advice, pricingVars>>

-----------------------------------------------------------------------------
(* Inputs of the pricing specification *)

\* the layout get_dummies(drop_first=True) gives the training data (the first
\* level of each field in sorted order, High / In Stock / Corporate, is dropped)
TrainingColumns ==
    << NumCol("costing"), NumCol("Installation_Cost"), NumCol("est_competitor_cost"),
       Dummy("Demand_Level", "Low"), Dummy("Demand_Level", "Medium"),
       Dummy("Stock_Availability", "Low Stock"),
       Dummy("Stock_Availability", "Out of Stock"),
       Dummy("Customer_Type", "Enterprise"), Dummy("Customer_Type", "Government"),
       Dummy("Customer_Type", "SME") >>

ColumnLists ==
    { TrainingColumns,
      \* another order, without Installation_Cost
      << Dummy("Demand_Level", "Medium"), NumCol("est_competitor_cost"),
         Dummy("Customer_Type", "SME"), NumCol("costing") >>,
      \* a column no request produces
      << NumCol("costing"), NumCol("quote_age"), NumCol("Installation_Cost"),
         Dummy("Stock_Availability", "Low Stock") >> }

Requests ==
    [costing             : {-100, 0, 100},
     demand_level        : {"Low", "Medium", "High", "Extreme"},
     stock_availability  : {"In Stock", "Low Stock", "Backorder"},
     installation_cost   : {0, 50},
     customer_type       : {"Corporate", "SME", "Reseller"},
     est_competitor_cost : {0, 80, 120},
     comp_markup         : {10, 25},
     our_min_margin      : {15}]

\* what the predictor may return: a numpy float64, finite or not
BasePrices ==
    { Fin(d * Scale, "np") : d \in {-5, 0, 90, 160} }
        \cup { NaN("np"), PInf("np"), NInf("np") }

AdvisorIdle ==
    /\ question = <<>>
    /\ context = <<>>
    /\ advice = NoOutcome
    /\ reply = NoOutcome

Init ==
    /\ req \in Requests
    /\ feature_columns \in ColumnLists
    /\ base_price \in BasePrices
    /\ apiResp = NoOutcome
    /\ appOut = NoOutcome
    /\ context_data = NoContextData
    /\ chat_history = EmptyHistory      \* the form is on screen: main has run
    /\ AdvisorIdle

Next ==
    \/ AppGenerate
    \/ ApiPredict

Spec == Init /\ [][Next]_vars

-----------------------------------------------------------------------------
(* The quantities the pricing claims speak of, stated from the request *)

MinAcceptablePrice(r) == Fin(r.costing * (100 + r.our_min_margin) * 100, "py")
CompetitorPrice(r)    == Fin(r.est_competitor_cost * (100 + r.comp_markup) * 100, "py")
Undercut(r)           == Fin(r.est_competitor_cost * (100 + r.comp_markup) * 95, "py")
Zero                  == Fin(0, "py")
IsFinite(x)           == x.k = "fin"

\* a decision was returned by the API / stored by the app
ApiDecided == apiResp.status = "ok"
AppDecided == context_data.present
ApiRan     == apiResp.status # "none"
AppRan     == appOut.status # "none"

IsInvalid(r) ==
    \/ r.costing < 0
    \/ r.installation_cost < 0
    \/ r.est_competitor_cost < 0
    \/ r.demand_level \notin DemandLevels
    \/ r.stock_availability \notin StockLevels
    \/ r.customer_type \notin CustomerTypes

\* a request of the data model: valid fields and a positive cost
WellFormed(r) == ~IsInvalid(r) /\ r.costing > 0 /\ r.est_competitor_cost > 0

\* C1: every decision recommends at least cost * (1 + ourMinMarginPercent/100)
\* (stated for the well-formed requests, where the floor is computable)
MarginFloorDominance ==
    WellFormed(req) =>
        /\ ApiDecided => Le(MinAcceptablePrice(req), apiResp.competitive_price)
        /\ AppDecided => Le(MinAcceptablePrice(req), context_data.competitive_price)

\* m <= min(a, b) read as m <= a and m <= b
FloorBelowCeiling(r, base) ==
    /\ Le(MinAcceptablePrice(r), base)
    /\ Le(MinAcceptablePrice(r), Undercut(r))
IsCeiling(r, base, p) ==
    IF Le(base, Undercut(r)) THEN Eq(p, base) ELSE Eq(p, Undercut(r))

\* C2: when the margin floor is at most min(basePrice, competitorPrice*0.95),
\* the recommended price is exactly that minimum
CeilingRespect ==
    /\ (ApiDecided /\ FloorBelowCeiling(req, base_price))
            => IsCeiling(req, base_price, apiResp.competitive_price)
    /\ (AppDecided /\ FloorBelowCeiling(req, base_price))
            => IsCeiling(req, base_price, context_data.competitive_price)

\* a decision where the competitor's undercut, not the base price, is the ceiling
CeilingRespectWitness ==
    /\ ApiDecided
    /\ AppDecided
    /\ FloorBelowCeiling(req, base_price)
    /\ Lt(Undercut(req), base_price)
    /\ Eq(context_data.competitive_price, Undercut(req))
    /\ Lt(MinAcceptablePrice(req), context_data.competitive_price)

AboveCeiling(r, base, p) == Lt(base, p) \/ Lt(Undercut(r), p)

\* C3: a recommended price above the base price or above the undercut
\* competitor price is the margin floor
FloorOnlyAboveCeiling ==
    /\ (ApiDecided /\ AboveCeiling(req, base_price, apiResp.competitive_price))
            => Eq(apiResp.competitive_price, MinAcceptablePrice(req))
    /\ (AppDecided /\ AboveCeiling(req, base_price, context_data.competitive_price))
            => Eq(context_data.competitive_price, MinAcceptablePrice(req))

\* the floor lifts the price above both the base price and the competitor price
FloorOnlyAboveCeilingWitness ==
    /\ ApiDecided
    /\ AppDecided
    /\ IsFinite(base_price)
    /\ Lt(base_price, context_data.competitive_price)
    /\ Lt(CompetitorPrice(req), context_data.competitive_price)
    /\ Lt(Undercut(req), base_price)

\* C6: a recommended price of 0 never comes with a decision: the operation
\* fails with a ZeroDivisionError and no margin is returned or stored
\* (stated for the requests without a negative or undeclared field)
ZeroPriceIsAnError ==
    ~IsInvalid(req) =>
        /\ AppDecided => ~Eq(context_data.competitive_price, Zero)
        /\ ApiDecided => ~Eq(apiResp.competitive_price, Zero)
        /\ (AppRan /\ appOut.status = "error") => appOut.error = "ZeroDivisionError"
        /\ (ApiRan /\ ~ApiDecided) => apiResp.error = "ZeroDivisionError"

\* C7: an invalid request is rejected as InvalidRequest before the predictor
\* is called and before any price is computed
InvalidRequestFailsFast ==
    IsInvalid(req) =>
        /\ ApiRan => (/\ apiResp.status = "error"
                      /\ apiResp.error = "InvalidRequest"
                      /\ ~apiResp.called)
        /\ AppRan => (/\ appOut.status = "error"
                      /\ appOut.error = "InvalidRequest"
                      /\ ~appOut.called)
        /\ ~AppDecided

\* C8: a non-finite base price is reported as PredictorFault and no
\* recommended price or margin is derived from it
\* (stated for the well-formed requests)
PredictorFaultSurfaced ==
    (WellFormed(req) /\ ~IsFinite(base_price)) =>
        /\ ApiRan => (apiResp.status = "error" /\ apiResp.error = "PredictorFault")
        /\ AppRan => (appOut.status = "error" /\ appOut.error = "PredictorFault")
        /\ ~AppDecided

\* the first value of each field in its canonical (sorted) order
FirstLevel(field) ==
    CASE field = "Demand_Level" -> "High"
      [] field = "Stock_Availability" -> "In Stock"
      [] field = "Customer_Type" -> "Corporate"

IsIndicator(c) == c[1] \in CategoricalFields /\ c[2] # FirstLevel(c[1])

OneHot(r, features) ==
    \A i \in 1..Len(features) :
        IsIndicator(features[i].col) =>
            features[i].val =
                (IF NewRow(r)[features[i].col[1]] = features[i].col[2] THEN 1 ELSE 0)

\* C9: a known indicator column of a non-first value holds 1 exactly when the
\* request has that value (stated for the well-formed requests)
OneHotIndicators ==
    WellFormed(req) =>
        /\ AppRan => OneHot(req, appOut.features)
        /\ ApiRan => OneHot(req, apiResp.features)

IsNumeric(c) == c[1] \in NumericFields /\ c[2] = ""
OwnIndicator(r, c) == c[1] \in CategoricalFields /\ NewRow(r)[c[1]] = c[2]

Aligned(r, columns, features) ==
    /\ Len(features) = Len(columns)
    /\ \A i \in 1..Len(columns) :
        /\ features[i].col = columns[i]
        /\ IsNumeric(columns[i]) => features[i].val = NewRow(r)[columns[i][1]]
        /\ (~IsNumeric(columns[i]) /\ ~OwnIndicator(r, columns[i]))
                => features[i].val = 0

\* C10: the frame given to the predictor has exactly the known columns in
\* their order; the three numeric fields are passed through, and a column that
\* is neither numeric nor an indicator of the request's own value is 0
FeatureAlignment ==
    /\ ApiRan => Aligned(req, feature_columns, apiResp.features)
    /\ AppRan => Aligned(req, feature_columns, appOut.features)

\* both handlers ran on a column list that reorders the numeric columns, omits
\* a produced one and has indicator columns no request produces
FeatureAlignmentWitness ==
    /\ ApiRan
    /\ AppRan
    /\ feature_columns # TrainingColumns
    /\ NumCol("Installation_Cost") \notin { feature_columns[i] : i \in 1..Len(feature_columns) }
    /\ req.installation_cost # 0
    /\ req.costing # 0
    /\ \E i \in 1..Len(feature_columns) :
            feature_columns[i] = NumCol("costing") /\ i > 1

-----------------------------------------------------------------------------
(* Inputs of the advisor specification *)

MaxWords  == 2     \* words in a question
MaxNumLen == 2     \* characters of the numeral after the margin label

Space == <<" ">>
Vocabulary ==
    { kw_margin,
      <<"M", "A", "R", "G", "I", "N", "S">>,
      <<"C", "o", "m", "p", "e", "t", "i", "t", "o", "r">>,
      kw_price,
      <<"p", "r", "i", "c", "i", "n", "g">>,
      <<"m", "y">> }

RECURSIVE Sentences(_)
Sentences(n) ==
    IF n = 0 THEN { <<>> }
    ELSE Sentences(n - 1)
            \cup Vocabulary
            \cup { s \o Space \o w : s \in Sentences(n - 1) \ { <<>> }, w \in Vocabulary }

Questions == Sentences(MaxWords)

NumAlphabet == {"0", "1", "2", "9", "."}
RECURSIVE Numerals(_)
Numerals(n) ==
    IF n = 0 THEN { <<>> }
    ELSE Numerals(n - 1)
            \cup { s \o <<c>> : s \in Numerals(n - 1), c \in NumAlphabet }

\* the numerals at the tier boundaries
BoundaryNumerals ==
    { <<"9", ".", "9", "9", "9">>, <<"1", "0", ".", "0">>,
      <<"1", "9", ".", "9", "9", "9">>, <<"2", "0", ".", "0">> }

Contexts ==
    { NoneText, <<>> }
        \cup { pre \o <<label>> \o num \o <<"%">> :
                 pre   \in { <<>>,
                             <<"Competitor price: $", "1", MarginLabel, "-", "5", "%">> },
                 label \in { MarginLabel, "profit margin: " },
                 num   \in Numerals(MaxNumLen) \cup BoundaryNumerals }

PricingIdle ==
    /\ req = [costing |-> 0]
    /\ feature_columns = <<>>
    /\ base_price = Zero
    /\ apiResp = NoOutcome
    /\ appOut = NoOutcome
    /\ context_data = NoContextData
    /\ chat_history = NoHistory

InitAdvisor ==
    /\ question \in Questions
    /\ context \in Contexts
    /\ advice = NoOutcome
    /\ reply = NoOutcome
    /\ PricingIdle

NextAdvisor ==
    \/ CallGetAdvice
    \/ CallChat

SpecAdvisor == InitAdvisor /\ [][NextAdvisor]_vars

-----------------------------------------------------------------------------
(* The advisor claims *)

\* the keyword occurs in the question in some letter case
Mentions(q, kw) ==
    \E i \in 1..Len(q) :
        /\ i + Len(kw) - 1 <= Len(q)
        /\ \A j \in 1..Len(kw) : LowerChar(q[i + j - 1]) = kw[j]

Asked    == reply.status # "none"
Answered == reply.status = "ok"
Advised  == advice.status = "ok"

MarginReplies == {ChatLow, ChatModerate, ChatStrong, ChatNoMargin}

\* C4: chat answers from the first branch, in the order margin, competitor,
\* price, fallback, whose keyword occurs in the question; only the margin
\* branch reads the context, so only it can end without an answer
ChatPriorityOrder ==
    Asked =>
        /\ Mentions(question, kw_margin)
                => (Answered => reply.value \in MarginReplies)
        /\ (~Mentions(question, kw_margin) /\ Mentions(question, kw_competitor))
                => (Answered /\ reply.value = ChatCompetitor)
        /\ (/\ ~Mentions(question, kw_margin)
            /\ ~Mentions(question, kw_competitor)
            /\ Mentions(question, kw_price))
                => (Answered /\ reply.value = ChatPrice)
        /\ (/\ ~Mentions(question, kw_margin)
            /\ ~Mentions(question, kw_competitor)
            /\ ~Mentions(question, kw_price))
                => (Answered /\ reply.value = ChatFallback)

\* a question with 'margin' in upper case and 'competitor' capitalised gets a
\* tier sentence
ChatPriorityOrderWitness ==
    /\ Answered
    /\ Mentions(question, kw_margin)
    /\ ~Contains(question, kw_margin)
    /\ Mentions(question, kw_competitor)
    /\ reply.value \in {ChatLow, ChatModerate, ChatStrong}

\* the margin of a context, when it can be determined
Determinable(ctx) ==
    /\ ctx # NoneText
    /\ re_search(ctx).matched
    /\ ~FloatRaises(re_search(ctx).group)
MarginOf(ctx) == float(re_search(ctx).group)

TierOf(m) ==
    IF m.num < 10 * m.den THEN "low"
    ELSE IF m.num < 20 * m.den THEN "moderate"
    ELSE "strong"

TierLine(tier) ==
    CASE tier = "low" -> AdviceLow
      [] tier = "moderate" -> AdviceModerate
      [] tier = "strong" -> AdviceStrong
TierSentence(tier) ==
    CASE tier = "low" -> ChatLow
      [] tier = "moderate" -> ChatModerate
      [] tier = "strong" -> ChatStrong

TierLinesIn(lines) ==
    { i \in 1..Len(lines) : lines[i] \in {AdviceLow, AdviceModerate, AdviceStrong} }

\* the tier the spec's examples name for a context made of the label and a numeral
ExampleTier(ctx) ==
    CASE ctx = <<MarginLabel, "9", ".", "9", "9", "9", "%">> -> "low"
      [] ctx = <<MarginLabel, "1", "0", ".", "0", "%">> -> "moderate"
      [] ctx = <<MarginLabel, "1", "9", ".", "9", "9", "9", "%">> -> "moderate"
      [] ctx = <<MarginLabel, "2", "0", ".", "0", "%">> -> "strong"
      [] OTHER -> "any"

\* C5: for a context whose margin is determinable, get_advice has exactly one
\* tier line and the margin branch of chat one tier sentence, both of the tier
\* margin < 10 low, 10 <= margin < 20 moderate, margin >= 20 strong
MarginTierThresholds ==
    Determinable(context) =>
        LET tier == TierOf(MarginOf(context))
        IN  /\ ExampleTier(context) \in {"any", tier}
            /\ advice.status # "none" =>
                    /\ Advised
                    /\ Cardinality(TierLinesIn(advice.value)) = 1
                    /\ \E i \in 1..Len(advice.value) : advice.value[i] = TierLine(tier)
            /\ (Asked /\ Mentions(question, kw_margin)) =>
                    /\ Answered
                    /\ reply.value = TierSentence(tier)

\* margin 10.0 exactly: both operations ran and chose the moderate tier
MarginTierThresholdsWitness ==
    /\ context = <<MarginLabel, "1", "0", ".", "0", "%">>
    /\ Advised
    /\ advice.value[2] = AdviceModerate
    /\ Answered
    /\ reply.value = ChatModerate

-----------------------------------------------------------------------------
(* Zero fill and the floor example *)

HasOwnColumn(r, columns, field) ==
    \E i \in 1..Len(columns) : columns[i] = Dummy(field, NewRow(r)[field])

ZeroFilled(r, columns, outcome) ==
    \A f \in CategoricalFields :
        ~HasOwnColumn(r, columns, f) =>
            /\ "features" \in DOMAIN outcome
            /\ Len(outcome.features) = Len(columns)
            /\ \A i \in 1..Len(outcome.features) :
                    outcome.features[i].col[1] = f => outcome.features[i].val = 0

\* C11: when the request's value of a categorical field has no indicator
\* column among the known columns, alignment still yields the frame and every
\* indicator column of that field in it is 0
ZeroFillTotality ==
    /\ ApiRan => ZeroFilled(req, feature_columns, apiResp)
    /\ AppRan => ZeroFilled(req, feature_columns, appOut)

\* both handlers ran on a request whose demand level (High) and customer type
\* (Corporate) have no column in the training layout, which has columns of both fields
ZeroFillTotalityWitness ==
    /\ ApiRan
    /\ AppRan
    /\ feature_columns = TrainingColumns
    /\ req.demand_level = "High"
    /\ req.customer_type = "Corporate"
    /\ req.costing # 0

IsFloorExample ==
    /\ req.costing = 100
    /\ req.our_min_margin = 15
    /\ req.est_competitor_cost = 80
    /\ req.comp_markup = 10
    /\ base_price = Fin(90 * Scale, "np")

\* the example's prices: competitorPrice 88, ceiling 83.6, floor and
\* recommended price 115
FloorExamplePrices ==
    /\ ApiDecided
    /\ AppDecided
    /\ Eq(apiResp.competitor_price, Fin(880000, "py"))
    /\ Eq(context_data.competitor_price, Fin(880000, "py"))
    /\ Eq(PyMin(base_price, Times095(competitor_price(req))), Fin(836000, "py"))
    /\ Eq(apiResp.our_min_price, Fin(1150000, "py"))
    /\ Eq(appOut.our_min_price, Fin(1150000, "py"))
    /\ Eq(apiResp.competitive_price, Fin(1150000, "py"))
    /\ Eq(context_data.competitive_price, Fin(1150000, "py"))

MarginIs(m, num, den) == m.k = "fin" /\ m.num * den = num * m.den

\* C12 as stated: the floor example yields the prices above and a margin of
\* exactly 15.0 %
FloorExampleMargin15 ==
    (IsFloorExample /\ ApiRan /\ AppRan) =>
        /\ FloorExamplePrices
        /\ MarginIs(apiResp.competitive_margin, 15, 1)
        /\ MarginIs(context_data.competitive_margin, 15, 1)

\* C12 amended: the floor example yields the prices above and the margin
\* (115 - 100) / 115 * 100 = 300/23 %, which the API reports as 13.04
FloorExample ==
    (IsFloorExample /\ ApiRan /\ AppRan) =>
        /\ FloorExamplePrices
        /\ MarginIs(apiResp.competitive_margin, 300, 23)
        /\ MarginIs(context_data.competitive_margin, 300, 23)
        /\ Eq(apiResp.body.profit_margin_percent, Fin(130400, "py"))
        /\ Eq(apiResp.body.recommended_price, Fin(1150000, "py"))

FloorExampleWitness ==
    /\ IsFloorExample
    /\ ApiDecided
    /\ AppDecided
    /\ Lt(base_price, context_data.competitive_price)

-----------------------------------------------------------------------------
(* The advisor without a margin *)

\* a context text from which no margin can be determined
NoMarginText(ctx) == ctx # NoneText /\ ~Determinable(ctx)

\* the degraded advice: heading, no tier line, the differentiation tip exactly
\* when the context mentions a competitor price, the two closing lines
DegradedAdvice(ctx, outcome) ==
    /\ outcome.status = "ok"
    /\ outcome.value =
          <<Heading>>
          \o (IF \E i \in 1..Len(ctx) :
                    LowerChar(ctx[i]) \in {"competitor price: $", "competitor price"}
              THEN <<AdviceDiff>> ELSE <<>>)
          \o <<AdviceMonitor, AdviceLoyalty>>

\* C13: for a context text without a determinable margin get_advice raises
\* nothing and returns the degraded advice
AdviceWithoutMargin ==
    (NoMarginText(context) /\ advice.status # "none")
        => DegradedAdvice(context, advice)

\* C14: for a question mentioning margin and a context text without an
\* extractable margin chat raises nothing and returns the fixed sentence
ChatWithoutMargin ==
    (NoMarginText(context) /\ Mentions(question, kw_margin) /\ Asked)
        => (Answered /\ reply.value = ChatNoMargin)

\* C15: with no context at all (None) get_advice still returns the degraded
\* advice and chat on a margin question the fixed sentence
UnresolvedContextIsNoError ==
    context = NoneText =>
        /\ advice.status # "none" => DegradedAdvice(<<>>, advice)
        /\ (Mentions(question, kw_margin) /\ Asked)
                => (Answered /\ reply.value = ChatNoMargin)

-----------------------------------------------------------------------------
(* The pricing tool's session: chatbotapp.py 362-368, 683-741 *)

DigitChar(d) ==
    CASE d = 0 -> "0" [] d = 1 -> "1" [] d = 2 -> "2" [] d = 3 -> "3"
      [] d = 4 -> "4" [] d = 5 -> "5" [] d = 6 -> "6" [] d = 7 -> "7"
      [] d = 8 -> "8" [] d = 9 -> "9"

\* the decimal digits of a natural number
RECURSIVE Decimal(_)
Decimal(n) ==
    IF n < 10 THEN <<DigitChar(n)>>
    ELSE Decimal(n \div 10) \o <<DigitChar(n % 10)>>

\* the ',' option of a format: a comma before every group of three digits
RECURSIVE Grouped(_)
Grouped(ds) ==
    IF Len(ds) <= 3 THEN ds
    ELSE Grouped(SubSeq(ds, 1, Len(ds) - 3)) \o <<",">>
            \o SubSeq(ds, Len(ds) - 2, Len(ds))

\* num / den >= 0 to the nearest integer, a tie to the even one
RoundHalfEven(num, den) ==
    LET q   == num \div den
        rem == num % den
    IN  IF 2 * rem < den \/ (2 * rem = den /\ q % 2 = 0) THEN q ELSE q + 1

NonFiniteText(kind) ==
    CASE kind = "nan" -> <<"n", "a", "n">>
      [] kind = "inf" -> <<"i", "n", "f">>
      [] kind = "ninf" -> <<"-", "i", "n", "f">>

\* f'{x:,.2f}' of a price
format_price(x) ==
    IF x.k # "fin" THEN NonFiniteText(x.k)
    ELSE LET cents == RoundHalfEven(Abs(x.v), Scale \div 100)
         IN  (IF x.v < 0 THEN <<"-">> ELSE <<>>)
                \o Grouped(Decimal(cents \div 100)) \o <<".">>
                \o <<DigitChar((cents % 100) \div 10), DigitChar(cents % 10)>>

\* f'{m:.1f}' of a margin
format_margin(m) ==
    IF m.k # "fin" THEN NonFiniteText(m.k)
    ELSE LET tenths == RoundHalfEven(Abs(m.num) * 10, m.den)
         IN  (IF m.num < 0 THEN <<"-">> ELSE <<>>)
                \o Decimal(tenths \div 10) \o <<".", DigitChar(tenths % 10)>>

\* the line break and indentation between the lines of the literal
Indent == "\n"

\* the context text built from the stored decision: chatbotapp.py 731-737
\* (the same literal at 362-368, from the locals of the evaluation)
context_str(cd) ==
    <<Indent, "Base model price: $">> \o format_price(cd.base_price)
        \o <<Indent, "Competitor price: $">> \o format_price(cd.competitor_price)
        \o <<Indent, "Recommended selling price: $">>
        \o format_price(cd.competitive_price)
        \o <<Indent, "Our cost: $">> \o format_price(cd.costing)
        \o <<Indent, MarginLabel>> \o format_margin(cd.competitive_margin)
        \o <<"%", Indent>>

\* the two turns of one question: chatbotapp.py 739-740
UserTurn(q)     == <<"You", q>>
Echo(q) ==
    <<"I received your question: '">> \o q
        \o <<"'. I would analyze this based on the pricing context.">>
AdvisorTurn_AsUser(q) == <<"You", Echo(q)>>
AdvisorTurn(q)  == <<"Advisor", Echo(q)>>

MaxAsked == 2      \* questions asked in one session

SessionRequests ==
    [costing             : {0, 100},
     demand_level        : {"Medium"},
     stock_availability  : {"In Stock"},
     installation_cost   : {50},
     customer_type       : {"SME"},
     est_competitor_cost : {120},
     comp_markup         : {25},
     our_min_margin      : {15}]

\* -5, 0, 90, 124.95 and 160 dollars
SessionBasePrices ==
    { Fin(v, "np") : v \in {-5 * Scale, 0, 90 * Scale, 1249500, 160 * Scale} }

SessionQuestions ==
    { <<"m", "a", "r", "g", "i", "n">>, <<"p", "r", "i", "c", "e">>, <<"m", "y">> }

\* a script run with no widget event
PageRun ==
    /\ chat_history' = init_history(chat_history)
    /\ UNCHANGED <<req, feature_columns, base_price, apiResp, appOut,
                   context_data, advisorVars>>

\* the user sets the widgets and clicks the button on the page a run rendered
ClickGenerate ==
    \E r \in SessionRequests, base \in SessionBasePrices :
        /\ chat_history.present
        /\ req' = r
        /\ base_price' = base
        /\ Generate(r, feature_columns, base)
        /\ UNCHANGED <<feature_columns, apiResp, advisorVars>>

\* the user submits a question in the chat box, which is shown only when
\* context_data is in the session (line 718): lines 727-741
AskQuestion ==
    \E q \in SessionQuestions :
        /\ chat_history.present
        /\ context_data.present
        /\ Len(chat_history.turns) < 2 * MaxAsked
        /\ question' = q
        /\ context' = context_str(context_data)
        /\ chat_history' =
              [init_history(chat_history) EXCEPT
                  !.turns = @ \o <<UserTurn(q), AdvisorTurn(q)>>]
        /\ UNCHANGED <<req, feature_columns, base_price, apiResp, appOut,
                       context_data, advice, reply>>

InitSession ==
    /\ req \in { r \in SessionRequests : r.costing = 100 }
    /\ feature_columns = TrainingColumns
    /\ base_price = Fin(90 * Scale, "np")
    /\ apiResp = NoOutcome
    /\ appOut = NoOutcome
    /\ context_data = NoContextData
    /\ chat_history = NoHistory
    /\ AdvisorIdle

\* the API serves requests beside the session and shares nothing with it
NextSession ==
    \/ PageRun
    \/ ClickGenerate
    \/ AskQuestion
    \/ ApiPredict

SpecSession == InitSession /\ [][NextSession]_vars

-----------------------------------------------------------------------------
(* The session claims *)

\* the tier lines of an advice
TierLinesOf(outcome) == { outcome.value[i] : i \in TierLinesIn(outcome.value) }

\* C16: for a stored decision of a well-formed request with a finite margin,
\* get_advice on the context text built from it has the tier line of the
\* numeric margin: formatting to one decimal and parsing back keeps the tier
\* and keeps the margin determinable
NumericMarginAuthoritative ==
    (appOut.status = "ok" /\ AppDecided /\ WellFormed(req)
        /\ context_data.competitive_margin.k = "fin")
    => LET text    == context_str(context_data)
           outcome == get_advice(text)
       IN  /\ Determinable(text)
           /\ outcome.status = "ok"
           /\ TierLinesOf(outcome)
                 = { TierLine(TierOf(context_data.competitive_margin)) }

\* the session's chat turns, none while the history is absent
Turns(history) == IF history.present THEN history.turns ELSE <<>>
Asking == Len(Turns(chat_history)) > 0

\* the five values of the evaluation of request r with predicted price base
Decision(r, base) ==
    [base_price         |-> base,
     competitor_price   |-> CompetitorPrice(r),
     competitive_price  |-> competitive_price(r, base),
     costing            |-> PyFloat(r.costing),
     competitive_margin |-> competitive_margin(competitive_price(r, base), r.costing)]

StoredDecision ==
    [f \in DOMAIN context_data \ {"present"} |-> context_data[f]]

\* C17: when the latest evaluation succeeded, context_data holds exactly the
\* five values of that evaluation, whatever was evaluated or asked before
LastWriteWins ==
    appOut.status = "ok"
        => (context_data.present /\ StoredDecision = Decision(req, base_price))

\* a question was asked about an earlier decision, and a later successful
\* evaluation with other values has replaced it
LastWriteWinsWitness ==
    /\ appOut.status = "ok"
    /\ Asking
    /\ context # context_str(context_data)
    /\ StoredDecision = Decision(req, base_price)

IsPrefix(s, t) == Len(s) <= Len(t) /\ SubSeq(t, 1, Len(s)) = s

\* C18: every step of the session keeps the turns there were as a prefix of
\* the turns there are
AppendOnly ==
    [][IsPrefix(Turns(chat_history), Turns(chat_history'))]_vars

\* two different questions were asked, and an evaluation ran after the second
AppendOnlyWitness ==
    /\ Len(Turns(chat_history)) = 4
    /\ chat_history.turns[1] # chat_history.turns[3]
    /\ chat_history.turns[3] = UserTurn(question)
    /\ context_data.present
    /\ context # context_str(context_data)

\* a step in which the pricing tool, or the API, evaluated a request
AppEvaluated == appOut' # appOut \/ req' # req \/ base_price' # base_price
ApiEvaluated == apiResp' # apiResp

\* C19: a step whose evaluation fails changes neither context_data nor the
\* chat history; after a failure, an evaluation of a well-formed request with a
\* finite predicted price succeeds, and in the tool stores its own decision
FailedDecisionKeepsState ==
    [][ /\ ((AppEvaluated /\ appOut'.status = "error")
                \/ (ApiEvaluated /\ apiResp'.status = "error"))
            => (context_data' = context_data /\ chat_history' = chat_history)
        /\ (AppEvaluated /\ appOut.status = "error"
                /\ WellFormed(req') /\ IsFinite(base_price'))
            => /\ appOut'.status = "ok"
               /\ context_data'.present
               /\ [f \in DOMAIN context_data' \ {"present"} |-> context_data'[f]]
                    = Decision(req', base_price')
        /\ (ApiEvaluated /\ apiResp.status = "error"
                /\ WellFormed(req) /\ IsFinite(base_price))
            => apiResp'.status = "ok" ]_vars

\* the latest evaluation failed with the division error while a decision was
\* stored and questions had been asked
FailedDecisionKeepsStateWitness ==
    /\ appOut.status = "error"
    /\ appOut.error = "ZeroDivisionError"
    /\ context_data.present
    /\ Asking
    /\ context = context_str(context_data)

\* C20: the last turn of the chat is the advisor's answer chat(question,
\* context) to the last question asked, for the context text built from the
\* decision stored when it was asked
AdvisorAnswersFollowUp ==
    Asking =>
        LET last   == chat_history.turns[Len(chat_history.turns)]
            answer == chat(question, context)
        IN  /\ last[1] = "Advisor"
            /\ answer.status = "ok"
            /\ last[2] = <<answer.value>>

\* the speakers of the turns alternate, the user first
Alternates(turns) ==
    \A i \in 1..Len(turns) :
        turns[i][1] = (IF i % 2 = 1 THEN "You" ELSE "Advisor")

\* C21: the chat history always has an even number of turns whose speakers
\* alternate from the user; a step that changes the turns appends exactly two,
\* the question asked and then one advisor turn, and is taken only while
\* context_data is in the session
ChatHistoryShape ==
    /\ [](Len(Turns(chat_history)) % 2 = 0 /\ Alternates(Turns(chat_history)))
    /\ [][ Turns(chat_history') # Turns(chat_history)
            => LET old == Turns(chat_history)
                   new == Turns(chat_history')
               IN  /\ context_data.present
                   /\ Len(new) = Len(old) + 2
                   /\ SubSeq(new, 1, Len(old)) = old
                   /\ new[Len(old) + 1] = <<"You", question'>>
                   /\ new[Len(old) + 2][1] = "Advisor" ]_vars

\* two questions have been asked and the latest evaluation failed, the stored
\* decision still being the one the last question was asked about
ChatHistoryShapeWitness ==
    /\ Len(Turns(chat_history)) = 4
    /\ chat_history.turns[3] = <<"You", question>>
    /\ chat_history.turns[4][1] = "Advisor"
    /\ appOut.status = "error"
    /\ context = context_str(context_data)

====
